---- MODULE Spec2Model ----
(***************************************************************************)
(* Faang-in-Sight API (backend/app/main.py): the six request handlers, the *)
(* news filter and the latest-per-ticker aggregation, as a state machine.  *)
(*                                                                         *)
(* A handler is cut at its outbound calls: <handler>_begin runs the code   *)
(* up to the first outbound call, <handler>_query / _fetch performs the    *)
(* warehouse / news call and runs the code up to the next outbound call,   *)
(* <handler>_generate performs the generation call and assembles the       *)
(* response.  The collaborators' answers are chosen by the environment     *)
(* inside those actions.                                                   *)
(*                                                                         *)
(* Spec serves one request at a time.  SpecConcurrent serves two: the      *)
(* handlers are plain `def` functions, which the framework runs on worker  *)
(* threads; the variables below hold the locals of the thread that runs,   *)
(* `parked` those of the other, and `switch` hands the processor over.     *)
(***************************************************************************)
EXTENDS Integers, Sequences, FiniteSets, TLC

VARIABLES
    OPENAI_API_KEY,   \* module global: generation credential (None or Some(key))
    NEWS_API_KEY,     \* module global: news credential (None or Some(key))
    openai_client,    \* module global: generation client handle, or None
    pc,               \* position of the request in flight
    endpoint,         \* handler serving the request in flight
    request,          \* the request's inputs
    days,             \* local `days` of compare_stocks / faang_dashboard
    df,               \* local `df`: the frame returned by to_dataframe()
    summary,          \* local `summary` of compare_stocks
    articles,         \* local `articles`: the list the news provider returned
    bq_queries,       \* warehouse calls made for this request (their parameters)
    news_requests,    \* news-provider calls made for this request (their parameters)
    openai_requests,  \* generation calls made for this request
    status_code,      \* 0 while in flight, else the status the handler ends with:
                      \* 200 for a return, the HTTPException's for a raise
    detail,           \* the error detail of the response ("" on success)
    body,             \* the success payload (<<>> on error)
    parked            \* the locals of the request the other worker thread serves

vars == <<OPENAI_API_KEY, NEWS_API_KEY, openai_client, pc, endpoint, request, days,
          df, summary, articles, bq_queries, news_requests, openai_requests, status_code, detail, body,
          parked>>

config == <<OPENAI_API_KEY, NEWS_API_KEY, openai_client>>

-----------------------------------------------------------------------------
(* Python values *)

\* Optional values: None, or Some(x).
None == <<>>
Some(x) == <<x>>

\* `x or ""` for an optional string.
OrEmpty(o) == IF o = None THEN "" ELSE o[1]

\* Truth value of an optional string: None and "" are falsy.
Truthy(o) == o # None /\ o[1] # ""

CharAt(s, i) == SubSeq(s, i, i)

UPPERCASE == "ABCDEFGHIJKLMNOPQRSTUVWXYZ"
LOWERCASE == "abcdefghijklmnopqrstuvwxyz"

\* Position of the one-character string c in s, 0 when absent.
IndexIn(c, s) ==
    IF \E i \in 1..Len(s) : CharAt(s, i) = c
    THEN CHOOSE i \in 1..Len(s) : CharAt(s, i) = c
    ELSE 0

RECURSIVE MapChars(_, _, _)
MapChars(s, from, to) ==
    IF s = "" THEN ""
    ELSE LET c == CharAt(s, 1)
             i == IndexIn(c, from)
         IN (IF i = 0 THEN c ELSE CharAt(to, i)) \o MapChars(SubSeq(s, 2, Len(s)), from, to)

\* str.lower() and str.upper()
lower(s) == MapChars(s, UPPERCASE, LOWERCASE)
upper(s) == MapChars(s, LOWERCASE, UPPERCASE)

\* `k in text` for strings
Contains(k, text) ==
    \/ k = ""
    \/ \E i \in 1..(Len(text) - Len(k) + 1) : SubSeq(text, i, i + Len(k) - 1) = k

\* str.strip()
RECURSIVE lstrip(_)
lstrip(s) == IF s # "" /\ CharAt(s, 1) = " " THEN lstrip(SubSeq(s, 2, Len(s))) ELSE s
RECURSIVE rstrip(_)
rstrip(s) == IF s # "" /\ CharAt(s, Len(s)) = " " THEN rstrip(SubSeq(s, 1, Len(s) - 1)) ELSE s
strip(s) == rstrip(lstrip(s))

\* Code-point order of the characters tickers are made of.
CODEPOINTS == "ABCDEFGHIJKLMNOPQRSTUVWXYZabcdefghijklmnopqrstuvwxyz"

\* a < b for strings (lexicographic by code point)
RECURSIVE StrLess(_, _)
StrLess(a, b) ==
    IF b = "" THEN FALSE
    ELSE IF a = "" THEN TRUE
    ELSE LET x == IndexIn(CharAt(a, 1), CODEPOINTS)
             y == IndexIn(CharAt(b, 1), CODEPOINTS)
         IN IF x # y THEN x < y
            ELSE StrLess(SubSeq(a, 2, Len(a)), SubSeq(b, 2, Len(b)))

Max(S) == CHOOSE m \in S : \A x \in S : x <= m
Min(S) == CHOOSE m \in S : \A x \in S : m <= x

Reverse(s) == [i \in 1..Len(s) |-> s[Len(s) + 1 - i]]

-----------------------------------------------------------------------------
(* Configuration *)

Creds == {None, Some("key")}

(* The warehouse: the gold table, and the queries the handlers run on it *)

\* Cells of a FLOAT / INTEGER column.  v is the number (daily_return in units
\* that keep the group means below whole), 0 for the cells that carry none.
Float(n) == [t |-> "float", v |-> n]
Integer(n) == [t |-> "int", v |-> n]
NaN == [t |-> "nan", v |-> 0]
PosInf == [t |-> "inf", v |-> 0]
NegInf == [t |-> "-inf", v |-> 0]
PyNone == [t |-> "None", v |-> 0]
SqlNull == [t |-> "NULL", v |-> 0]
Date(d) == [t |-> "date", v |-> d]
Str(x) == [t |-> "str", s |-> x]
NA == [t |-> "NA", v |-> 0]

\* The five tickers the ETL job loads, in its order (etl_faang.py FAANG_SYMBOLS).
FAANG_SYMBOLS == <<"AAPL", "AMZN", "META", "NFLX", "GOOGL">>
FAANG == {FAANG_SYMBOLS[i] : i \in DOMAIN FAANG_SYMBOLS}

\* CURRENT_DATE() and the trade dates of the model, as YYYYMMDD, each with the
\* number of days it lies before CURRENT_DATE().
CURRENT_DATE == [date |-> 20261102, ago |-> 0]
CALENDAR == { CURRENT_DATE,
              [date |-> 20261101, ago |-> 1],
              [date |-> 20261030, ago |-> 3],
              [date |-> 20260725, ago |-> 100],
              [date |-> 20260416, ago |-> 200] }
DaysAgo(d) == (CHOOSE c \in CALENDAR : c.date = d).ago

GoldRow(d, c, r, v) == [trade_date |-> d, close |-> c, daily_return |-> r, total_volume |-> v]

\* What the gold table may hold for one ticker, in storage order (oldest first).
\* close stands for every FLOAT column the handlers reduce with "first"
\* (close, cumulative_return, rsi_14, ma_20, ma_50, open, high, low).
HISTORIES ==
    { <<>>,
      << GoldRow(20260725, Float(10), Float(6), Integer(5)),
         GoldRow(20261030, Float(12), Float(12), Integer(7)) >>,
      << GoldRow(20260416, NegInf, NaN, Integer(9)),
         GoldRow(20260725, Float(20), Float(-6), Integer(3)),
         GoldRow(20261030, Float(31), PosInf, Integer(1)),
         GoldRow(20261030, Float(32), SqlNull, Integer(2)),
         GoldRow(20261101, SqlNull, SqlNull, SqlNull) >> }

\* The contents of the gold table: a history per ticker.
TABLES == [FAANG -> HISTORIES]

\* The tables that hold rows of the given tickers only: a query that selects
\* these tickers returns the same rows whatever the table holds of the others.
TablesOf(tickers) ==
    { [k \in FAANG |-> IF k \in tickers THEN f[k] ELSE <<>>] :
        f \in [tickers \cap FAANG -> HISTORIES] }

RECURSIVE Concat(_)
Concat(ss) == IF ss = <<>> THEN <<>> ELSE Head(ss) \o Concat(Tail(ss))

\* The table's rows in storage order, each with its ticker.
TableRows(table) ==
    Concat([i \in DOMAIN FAANG_SYMBOLS |->
        LET h == table[FAANG_SYMBOLS[i]]
        IN [j \in DOMAIN h |->
              [ticker |-> FAANG_SYMBOLS[i], trade_date |-> h[j].trade_date,
               close |-> h[j].close, daily_return |-> h[j].daily_return,
               total_volume |-> h[j].total_volume]]])

\* How an ordering leaves rows of equal trade_date: in the order it met them, or
\* not (ORDER BY promises no order among ties; neither does a quicksort).
TieOrders == {"input", "reversed"}

\* rows ordered by trade_date descending
RECURSIVE SortDateDesc(_, _)
SortDateDesc(rows, tie) ==
    IF rows = <<>> THEN <<>>
    ELSE LET m == Max({rows[i].trade_date : i \in DOMAIN rows})
             top == SelectSeq(rows, LAMBDA r : r.trade_date = m)
             rest == SelectSeq(rows, LAMBDA r : r.trade_date # m)
         IN (IF tie = "input" THEN top ELSE Reverse(top)) \o SortDateDesc(rest, tie)

\* rows ordered by trade_date ascending
SortDateAsc(rows, tie) == Reverse(SortDateDesc(rows, IF tie = "input" THEN "reversed" ELSE "input"))

\* to_dataframe(): a NULL of a FLOAT column arrives as NaN, a NULL of an INTEGER
\* column as the missing value NA.
ToFrameCell(c, col) ==
    IF c.t = "NULL" THEN (IF col = "total_volume" THEN NA ELSE NaN) ELSE c

\* SELECT ticker, trade_date, close, daily_return ... WHERE trade_date >=
\* DATE_SUB(CURRENT_DATE(), INTERVAL n DAY) [AND ticker IN tickers]
\* ORDER BY trade_date DESC, then to_dataframe().
WindowQuery(table, n, tickers, tie) ==
    LET hit == SelectSeq(TableRows(table),
                         LAMBDA r : DaysAgo(r.trade_date) <= n /\ r.ticker \in tickers)
        rows == SortDateDesc(hit, tie)
    IN [i \in DOMAIN rows |->
          [ticker |-> rows[i].ticker, trade_date |-> rows[i].trade_date,
           close |-> ToFrameCell(rows[i].close, "close"),
           daily_return |-> ToFrameCell(rows[i].daily_return, "daily_return")]]

-----------------------------------------------------------------------------
(* pandas: cleaning and the latest-per-ticker aggregation *)

\* The builds of pandas differ in what df.where(pd.notnull(df), None) leaves in
\* a float column: None (the column turns to object) or NaN (the column stays
\* float64 and None is read as NaN).
PandasBuilds == {"object", "float64"}

IsNull(c) == c.t \in {"nan", "None", "NA"}

\* df.replace([np.inf, -np.inf], np.nan), on one cell
replace_inf(c) == IF c.t \in {"inf", "-inf"} THEN NaN ELSE c

\* df.where(pd.notnull(df), None), on one cell
where_notnull(c, build) == IF IsNull(c) /\ build = "object" THEN PyNone ELSE c

\* The two cleaning statements, on a frame of market rows.
clean(frame, build) ==
    [i \in DOMAIN frame |->
        [frame[i] EXCEPT !.close = where_notnull(replace_inf(@), build),
                         !.daily_return = where_notnull(replace_inf(@), build)]]

\* sort_values, had the call said ascending=True.
sort_values_ascending(frame, tie) == SortDateAsc(frame, tie)

\* df.sort_values("trade_date", ascending=False); the default kind is quicksort,
\* which may or may not keep rows of equal trade_date in input order.
sort_values(frame, tie) == SortDateDesc(frame, tie)

\* The keys of .groupby("ticker"): the distinct tickers, sorted (sort=True is
\* the default of groupby).
RECURSIVE SortStrings(_)
SortStrings(S) ==
    IF S = {} THEN <<>>
    ELSE LET m == CHOOSE x \in S : \A y \in S : y = x \/ StrLess(x, y)
         IN <<m>> \o SortStrings(S \ {m})

\* The distinct tickers of a frame in the order they first appear in it.
RECURSIVE FirstAppearance(_)
FirstAppearance(frame) ==
    IF frame = <<>> THEN <<>>
    ELSE LET t == frame[1].ticker
         IN <<t>> \o FirstAppearance(SelectSeq(Tail(frame), LAMBDA r : r.ticker # t))

\* groupby_keys, had the call said .groupby("ticker", sort=False).
groupby_keys_unsorted(frame) == FirstAppearance(frame)

groupby_keys(frame) == SortStrings({frame[i].ticker : i \in DOMAIN frame})

\* The rows of one group, in the order of the frame.
group(frame, key) == SelectSeq(frame, LAMBDA r : r.ticker = key)

\* What an aggregation over no value gives.
Missing(build) == IF build = "object" THEN PyNone ELSE NaN

\* .agg((col, "first")) on a float column: GroupBy.first is the first value of
\* the group that is not null.
first(g, col, build) ==
    LET vals == SelectSeq([i \in DOMAIN g |-> g[i][col]], LAMBDA c : ~IsNull(c))
    IN IF vals = <<>> THEN Missing(build) ELSE vals[1]

\* .agg(("trade_date", "first")): trade_date is never null in a fetched row.
first_date(g) == g[1].trade_date

RECURSIVE Sum(_)
Sum(vals) == IF vals = <<>> THEN 0 ELSE Head(vals).v + Sum(Tail(vals))

\* .agg((col, "mean")): the mean of the values that are not null, NaN if none.
mean(g, col) ==
    LET vals == SelectSeq([i \in DOMAIN g |-> g[i][col]], LAMBDA c : ~IsNull(c))
    IN IF vals = <<>> THEN NaN ELSE Float(Sum(vals) \div Len(vals))

\* compare_stocks: summary = df.sort_values(...).groupby("ticker").agg(...).reset_index()
compare_summary(frame, tie, build) ==
    LET sorted == sort_values(clean(frame, build), tie)
        keys == groupby_keys(sorted)
    IN [k \in DOMAIN keys |->
          LET g == group(sorted, keys[k])
          IN [ticker |-> keys[k],
              last_close |-> first(g, "close", build),
              avg_daily_return |-> mean(g, "daily_return")]]

\* faang_dashboard: latest = df.sort_values(...).groupby("ticker").agg(...).reset_index()
dashboard_latest(frame, tie, build) ==
    LET sorted == sort_values(clean(frame, build), tie)
        keys == groupby_keys(sorted)
    IN [k \in DOMAIN keys |->
          LET g == group(sorted, keys[k])
          IN [ticker |-> keys[k],
              last_date |-> first_date(g),
              last_close |-> first(g, "close", build),
              last_daily_return |-> first(g, "daily_return", build)]]

-----------------------------------------------------------------------------
(* Requests and responses *)

QUESTIONS == {"", "  ", "Is AAPL up?", " Compare META and NFLX "}
TICKER_INPUTS == {"AAPL", "aapl", "NFLX", "msft"}
LIMIT_INPUTS == {-1, 0, 1, 2, 10}
DAYS_INPUTS == {-1, 7, 60, 180, 181, 365, 1000}

NoRequest ==
    [question |-> "", ticker |-> "", ticker1 |-> "", ticker2 |-> "", days |-> 0, limit |-> 0]

\* The locals of a worker thread that serves no request.
IdleContext ==
    [pc |-> "idle", endpoint |-> "none", request |-> NoRequest, days |-> 0, df |-> <<>>,
     summary |-> <<>>, articles |-> <<>>, bq_queries |-> <<>>, news_requests |-> <<>>,
     openai_requests |-> <<>>, status_code |-> 0, detail |-> "", body |-> <<>>]

\* What the generation provider may answer: a completion whose content is a
\* string or None, or an error.
COMPLETIONS ==
    { [ok |-> TRUE, content |-> Some(" Momentum looks mixed. "), error |-> ""],
      [ok |-> TRUE, content |-> None, error |-> ""],
      [ok |-> FALSE, content |-> None, error |-> "Rate limit reached"] }

Init ==
    /\ OPENAI_API_KEY \in Creds
    /\ NEWS_API_KEY \in Creds
    /\ openai_client = (IF Truthy(OPENAI_API_KEY) THEN Some("OpenAI") ELSE None)
    /\ pc = "idle"
    /\ endpoint = "none"
    /\ request = NoRequest
    /\ days = 0
    /\ df = <<>>
    /\ summary = <<>>
    /\ articles = <<>>
    /\ bq_queries = <<>>
    /\ news_requests = <<>>
    /\ openai_requests = <<>>
    /\ status_code = 0
    /\ detail = ""
    /\ body = <<>>
    /\ parked = IdleContext

\* A request arrives: the handler starts, its locals unset and no call made.
Arrive(name, req) ==
    /\ pc = "idle"
    /\ endpoint' = name
    /\ request' = req
    /\ UNCHANGED <<config, parked, df, summary, articles, bq_queries, news_requests, openai_requests>>

\* raise HTTPException(status_code=code, detail=text)
Raise(code, text) ==
    /\ pc' = "done"
    /\ status_code' = code
    /\ detail' = text
    /\ body' = <<>>

\* An exception no handler code catches: the framework answers 500.
Unhandled == Raise(500, "Internal Server Error")

\* return payload
Return(payload) ==
    /\ pc' = "done"
    /\ status_code' = 200
    /\ detail' = ""
    /\ body' = payload

\* The handler goes on to its next outbound call.
Goto(label) ==
    /\ pc' = label
    /\ status_code' = 0
    /\ detail' = ""
    /\ body' = <<>>

\* The record of one warehouse call: the query, the parameters bound into it
\* (days is the literal of the SQL text where the query binds none, 0 where it
\* has no window), and how it came back: raised, or the number of rows.
BqCall(query, n, tickers, result, frame) ==
    [query |-> query, days |-> n, tickers |-> tickers,
     raised |-> (result = None), rows |-> Len(frame)]

\* The record of one generation call, with the provider's answer.
OpenAICall(prompt, c) == [model |-> "gpt-4o-mini", prompt |-> prompt, completion |-> c]

\* Generated, had the handler no except clause that turns a failed generation
\* into an HTTPException: the failure ends as an empty text.
Generated_swallowed(c) ==
    [ok |-> TRUE, text |-> (IF c.ok /\ c.content # None THEN strip(c.content[1]) ELSE ""),
     error |-> ""]

\* openai_client.chat.completions.create(...) inside try/except, then
\* completion.choices[0].message.content.strip(): the text, or the HTTPException.
Generated(c) ==
    IF c.ok /\ c.content # None
    THEN [ok |-> TRUE, text |-> strip(c.content[1]), error |-> ""]
    ELSE [ok |-> FALSE, text |-> "",
          error |-> "OpenAI error: " \o
                    (IF c.ok THEN "'NoneType' object has no attribute 'strip'" ELSE c.error)]

-----------------------------------------------------------------------------
(* POST /ask *)

ask_begin(question) ==
    /\ Arrive("ask", [NoRequest EXCEPT !.question = question])
    /\ days' = days
    /\ IF strip(question) = ""
       THEN Raise(400, "Question must not be empty.")
       ELSE IF openai_client = None
       THEN Raise(500, "OPENAI_API_KEY environment variable is not set.")
       ELSE Goto("ask_query")

ask_query(result, tie) ==
    /\ pc = "ask_query"
    /\ df' = (IF result = None THEN df ELSE WindowQuery(result[1], 60, FAANG, tie))
    /\ bq_queries' = Append(bq_queries, BqCall("ask", 60, <<>>, result, df'))
    /\ UNCHANGED <<config, parked, endpoint, request, days, summary, articles, news_requests, openai_requests>>
    /\ IF result = None
       THEN Unhandled
       ELSE IF df' = <<>>
       THEN Raise(500, "No data available in gold table to answer the question.")
       ELSE Goto("ask_generate")

ask_generate(c) ==
    /\ pc = "ask_generate"
    /\ openai_requests' = Append(openai_requests, OpenAICall("ask", c))
    /\ UNCHANGED <<config, parked, endpoint, request, days, df, summary, articles, bq_queries, news_requests>>
    /\ LET g == Generated(c)
       IN IF g.ok THEN Return([answer |-> g.text]) ELSE Raise(500, g.error)

-----------------------------------------------------------------------------
(* POST /compare-stocks *)

\* compare_clamp, with max and min taken the wrong way round.
compare_clamp_swapped(d) == Min({7, Max({d, 365})})

compare_clamp(d) == Max({7, Min({d, 365})})

compare_begin(ticker1, ticker2, d) ==
    /\ Arrive("compare", [NoRequest EXCEPT !.ticker1 = ticker1, !.ticker2 = ticker2, !.days = d])
    /\ IF openai_client = None
       THEN days' = days /\ Raise(500, "OPENAI_API_KEY environment variable is not set.")
       ELSE IF upper(ticker1) = upper(ticker2)
       THEN days' = days /\ Raise(400, "Please provide two different tickers.")
       ELSE days' = compare_clamp(d) /\ Goto("compare_query")

compare_query(result, tie) ==
    /\ pc = "compare_query"
    /\ LET t1 == upper(request.ticker1)
           t2 == upper(request.ticker2)
       IN /\ df' = (IF result = None THEN df ELSE WindowQuery(result[1], days, {t1, t2}, tie))
          /\ bq_queries' = Append(bq_queries, BqCall("compare", days, <<t1, t2>>, result, df'))
          /\ UNCHANGED <<config, parked, endpoint, request, days, articles, news_requests, openai_requests>>
          /\ IF result = None
             THEN summary' = summary /\ Unhandled
             ELSE IF df' = <<>>
             THEN /\ summary' = summary
                  /\ Raise(404, "No data found for those tickers in the selected window.")
             ELSE /\ \E sort_tie \in TieOrders, build \in PandasBuilds :
                        summary' = compare_summary(df', sort_tie, build)
                  /\ Goto("compare_generate")

compare_generate(c) ==
    /\ pc = "compare_generate"
    /\ openai_requests' = Append(openai_requests, OpenAICall("compare", c))
    /\ UNCHANGED <<config, parked, endpoint, request, days, df, summary, articles, bq_queries, news_requests>>
    /\ LET g == Generated(c)
       IN IF g.ok
          THEN Return([ticker1 |-> upper(request.ticker1), ticker2 |-> upper(request.ticker2),
                       days |-> days, table |-> summary, analysis |-> g.text])
          ELSE Raise(500, g.error)

-----------------------------------------------------------------------------
(* GET /faang-dashboard *)

dashboard_clamp(d) == Max({7, Min({d, 180})})

dashboard_begin(d) ==
    /\ Arrive("dashboard", [NoRequest EXCEPT !.days = d])
    /\ days' = dashboard_clamp(d)
    /\ Goto("dashboard_query")

dashboard_query(result, tie) ==
    /\ pc = "dashboard_query"
    /\ df' = (IF result = None THEN df ELSE WindowQuery(result[1], days, FAANG, tie))
    /\ bq_queries' = Append(bq_queries, BqCall("dashboard", days, FAANG_SYMBOLS, result, df'))
    /\ UNCHANGED <<config, parked, endpoint, request, days, summary, articles, news_requests, openai_requests>>
    /\ IF result = None
       THEN Unhandled
       ELSE IF df' = <<>>
       THEN Raise(404, "No FAANG data found.")
       ELSE \E sort_tie \in TieOrders, build \in PandasBuilds :
              Return([days |-> days, tickers |-> dashboard_latest(df', sort_tie, build)])

-----------------------------------------------------------------------------
(* GET /chart-data *)

\* date.isoformat() of a YYYYMMDD date: "YYYY-MM-DD"
isoformat(d) ==
    LET digits == ToString(d)
    IN SubSeq(digits, 1, 4) \o "-" \o SubSeq(digits, 5, 6) \o "-" \o SubSeq(digits, 7, 8)

\* SELECT trade_date, open, high, low, close, total_volume, ma_20, ma_50 ...
\* WHERE ticker = @ticker ORDER BY trade_date, then to_dataframe().
ChartQuery(table, ticker, tie) ==
    LET hit == SelectSeq(TableRows(table), LAMBDA r : r.ticker = ticker)
        rows == SortDateAsc(hit, tie)
    IN [i \in DOMAIN rows |->
          [trade_date |-> Date(rows[i].trade_date),
           close |-> ToFrameCell(rows[i].close, "close"),
           total_volume |-> ToFrameCell(rows[i].total_volume, "total_volume")]]

\* json_safe, without the branches that turn NaN and missing values into None.
json_safe_dates_only(val) ==
    IF val.t = "date" THEN Str(isoformat(val.v)) ELSE val

\* The body of the loop over row.items(): one value made JSON-safe.
json_safe(val) ==
    IF val.t = "date" THEN Str(isoformat(val.v))
    ELSE IF val.t \in {"float", "nan", "inf", "-inf"}
    THEN (IF val.t = "float" THEN val ELSE PyNone)
    ELSE IF IsNull(val) THEN PyNone ELSE val

\* chart_points, with every finite float turned into a percentage.
chart_points_percent(frame) ==
    LET pct(c) == IF c.t = "float" THEN Float(c.v * 100) ELSE c
    IN [i \in DOMAIN frame |->
          [trade_date |-> json_safe(replace_inf(frame[i].trade_date)),
           close |-> pct(json_safe(replace_inf(frame[i].close))),
           total_volume |-> json_safe(replace_inf(frame[i].total_volume))]]

\* points: df.replace([np.inf, -np.inf], np.nan), then one record per row.
chart_points(frame) ==
    [i \in DOMAIN frame |->
        [trade_date |-> json_safe(replace_inf(frame[i].trade_date)),
         close |-> json_safe(replace_inf(frame[i].close)),
         total_volume |-> json_safe(replace_inf(frame[i].total_volume))]]

chart_begin(ticker) ==
    /\ Arrive("chart", [NoRequest EXCEPT !.ticker = ticker])
    /\ days' = days
    /\ Goto("chart_query")

chart_query(result, tie) ==
    /\ pc = "chart_query"
    /\ df' = (IF result = None THEN df ELSE ChartQuery(result[1], request.ticker, tie))
    /\ bq_queries' = Append(bq_queries, BqCall("chart", 0, <<request.ticker>>, result, df'))
    /\ UNCHANGED <<config, parked, endpoint, request, days, summary, articles, news_requests, openai_requests>>
    /\ IF result = None
       THEN Unhandled
       ELSE IF df' = <<>>
       THEN Raise(404, "No data found for ticker: " \o request.ticker)
       ELSE Return([ticker |-> upper(request.ticker), points |-> chart_points(df')])

-----------------------------------------------------------------------------
(* The news filter *)

TICKER_TO_COMPANY ==
    [t \in FAANG |->
        CASE t = "AAPL" -> "Apple"
          [] t = "AMZN" -> "Amazon"
          [] t = "META" -> "Meta"
          [] t = "NFLX" -> "Netflix"
          [] t = "GOOGL" -> "Google"]

\* TICKER_TO_COMPANY.get(symbol, symbol)
company_of(symbol) == IF symbol \in DOMAIN TICKER_TO_COMPANY THEN TICKER_TO_COMPANY[symbol] ELSE symbol

\* "Barron<U+2019>s" stands for the name written with the typographic apostrophe.
REPUTED_SOURCES ==
    { "Bloomberg", "Reuters", "The Wall Street Journal", "CNBC", "Financial Times",
      "MarketWatch", "Yahoo Finance", "Barron<U+2019>s", "Barron's", "The Motley Fool",
      "Seeking Alpha", "Investor's Business Daily" }

STOCK_KEYWORDS ==
    << "stock", "shares", "earnings", "quarter", "q1", "q2", "q3", "q4", "guidance",
       "outlook", "revenue", "profit", "loss", "valuation", "price target", "analyst",
       "dividend" >>

is_stock_related(title, description, company) ==
    LET text == lower(title \o " " \o description)
    IN IF ~Contains(lower(company), text)
       THEN FALSE
       ELSE \E k \in DOMAIN STOCK_KEYWORDS : Contains(STOCK_KEYWORDS[k], text)

\* An article of the provider's answer.  title, description and the source's
\* name are optional (absent or null); so is the source object.
Article(title, description, source, url) ==
    [title |-> title, description |-> description, source |-> source, url |-> url,
     publishedAt |-> "2026-11-01T09:00:00Z"]

ARTICLES ==
    { Article(Some("Apple stock jumps"), Some("Shares rally"), Some(Some("Reuters")), "u1"),
      Article(None, Some("APPLE Q3 EARNINGS"), None, "u2"),
      Article(Some("Apple stock slides"), Some(""), Some(Some("TechBlog")), "u3"),
      Article(Some("Netflix shares fall"), None, Some(None), "u4"),
      Article(Some("Apple unveils phone"), Some("Launch event"), Some(Some("Bloomberg")), "u5") }

\* (a.get("source") or {}).get("name") or ""
source_name_of(a) == IF a.source = None THEN "" ELSE OrEmpty(a.source[1])

\* keeps, without the test of the source's name.
keeps_any_source(a, company) ==
    is_stock_related(OrEmpty(a.title), OrEmpty(a.description), company)

\* The two tests of the loop body: the article is kept unless one of them
\* says `continue`.
keeps(a, company) ==
    /\ ~(source_name_of(a) # "" /\ source_name_of(a) \notin REPUTED_SOURCES)
    /\ is_stock_related(OrEmpty(a.title), OrEmpty(a.description), company)

\* keeps, tabulated over the articles and companies of the model.
COMPANIES == {company_of(upper(t)) : t \in TICKER_INPUTS}
Keeps == [a \in ARTICLES, c \in COMPANIES |-> keeps(a, c)]

\* for a in articles: ... append ... if len(filtered) >= limit: break
\* The articles kept so far are `kept`; the loop is at articles[i].
RECURSIVE filter_loop(_, _, _, _, _)
filter_loop(list, i, kept, company, limit) ==
    IF i > Len(list) THEN kept
    ELSE IF ~Keeps[list[i], company]
    THEN filter_loop(list, i + 1, kept, company, limit)
    ELSE LET more == Append(kept, list[i])
         IN IF Len(more) >= limit THEN more
            ELSE filter_loop(list, i + 1, more, company, limit)

\* get_news: the entries of `filtered`
news_filtered(list, company, limit) ==
    LET kept == filter_loop(list, 1, <<>>, company, limit)
    IN [i \in DOMAIN kept |->
          [title |-> OrEmpty(kept[i].title), description |-> OrEmpty(kept[i].description),
           source |-> source_name_of(kept[i]), url |-> kept[i].url,
           published_at |-> kept[i].publishedAt]]

\* news_sentiment: the entries of `headlines_for_client`
sentiment_headlines(list, company, limit) ==
    LET kept == filter_loop(list, 1, <<>>, company, limit)
    IN [i \in DOMAIN kept |->
          [title |-> OrEmpty(kept[i].title), source |-> source_name_of(kept[i]),
           url |-> kept[i].url, published_at |-> kept[i].publishedAt]]

-----------------------------------------------------------------------------
(* GET /news and GET /news-sentiment *)

\* Longest article list the provider returns in the model.
MaxArticles == 3

RECURSIVE SeqsUpTo(_, _)
SeqsUpTo(S, n) ==
    IF n = 0 THEN {<<>>}
    ELSE LET shorter == SeqsUpTo(S, n - 1)
         IN shorter \cup {Append(q, x) : q \in {r \in shorter : Len(r) = n - 1}, x \in S}

\* What requests.get(...) may do: raise (None), answer with a status other than
\* 200, or answer 200 with a list of articles.
NEWS_ANSWERS ==
    {None, Some([status_code |-> 401, text |-> "apiKeyInvalid", articles |-> <<>>])}
    \cup {Some([status_code |-> 200, text |-> "", articles |-> l]) : l \in SeqsUpTo(ARTICLES, MaxArticles)}

\* The record of one news call: its params, and the status it came back with
\* (0 when requests.get raised).
NewsCall(company, limit, resp) ==
    [q |-> "\"" \o company \o "\" AND (stock OR shares OR earnings OR guidance OR analyst)",
     pageSize |-> limit * 2,
     status_code |-> (IF resp = None THEN 0 ELSE resp[1].status_code)]

news_begin(ticker, limit) ==
    /\ Arrive("news", [NoRequest EXCEPT !.ticker = ticker, !.limit = limit])
    /\ days' = days
    /\ IF ~Truthy(NEWS_API_KEY)
       THEN Raise(500, "NEWS_API_KEY is not set on the server.")
       ELSE Goto("news_fetch")

news_fetch(resp) ==
    /\ pc = "news_fetch"
    /\ LET symbol == upper(request.ticker)
           company == company_of(symbol)
       IN /\ news_requests' = Append(news_requests, NewsCall(company, request.limit, resp))
          /\ UNCHANGED <<config, parked, endpoint, request, days, df, summary, bq_queries, openai_requests>>
          /\ articles' = (IF resp # None /\ resp[1].status_code = 200
                          THEN resp[1].articles ELSE articles)
          /\ IF resp = None
             THEN Unhandled
             ELSE IF resp[1].status_code # 200
             THEN Raise(500, "News API error: " \o ToString(resp[1].status_code)
                             \o " " \o resp[1].text)
             ELSE LET filtered == news_filtered(resp[1].articles, company, request.limit)
                  IN IF filtered = <<>>
                     THEN Raise(404, "No suitable stock-related news articles found.")
                     ELSE Return([ticker |-> symbol, company |-> company,
                                  articles |-> filtered])

sentiment_begin(ticker, limit) ==
    /\ Arrive("sentiment", [NoRequest EXCEPT !.ticker = ticker, !.limit = limit])
    /\ days' = days
    /\ IF ~Truthy(NEWS_API_KEY)
       THEN Raise(500, "NEWS_API_KEY is not set on the server.")
       ELSE Goto("sentiment_fetch")

\* The local `headlines_for_client` is kept in `summary` until the response.
sentiment_fetch(resp) ==
    /\ pc = "sentiment_fetch"
    /\ LET symbol == upper(request.ticker)
           company == company_of(symbol)
       IN /\ news_requests' = Append(news_requests, NewsCall(company, request.limit, resp))
          /\ UNCHANGED <<config, parked, endpoint, request, days, df, bq_queries, openai_requests>>
          /\ articles' = (IF resp # None /\ resp[1].status_code = 200
                          THEN resp[1].articles ELSE articles)
          /\ IF resp = None
             THEN summary' = summary /\ Unhandled
             ELSE IF resp[1].status_code # 200
             THEN /\ summary' = summary
                  /\ Raise(500, "News API error: " \o ToString(resp[1].status_code)
                                \o " " \o resp[1].text)
             ELSE IF resp[1].articles = <<>>
             THEN summary' = summary /\ Raise(404, "No news articles found.")
             ELSE LET headlines == sentiment_headlines(resp[1].articles, company, request.limit)
                  IN IF headlines = <<>>
                     THEN /\ summary' = summary
                          /\ Raise(404, "No suitable stock-related news articles found from reputable sources.")
                     ELSE IF openai_client = None
                     THEN /\ summary' = summary
                          /\ Raise(500, "OPENAI_API_KEY environment variable is not set.")
                     ELSE summary' = headlines /\ Goto("sentiment_generate")

sentiment_generate(c) ==
    /\ pc = "sentiment_generate"
    /\ openai_requests' = Append(openai_requests, OpenAICall("sentiment", c))
    /\ UNCHANGED <<config, parked, endpoint, request, days, df, summary, articles, bq_queries, news_requests>>
    /\ LET g == Generated(c)
           symbol == upper(request.ticker)
       IN IF g.ok
          THEN Return([ticker |-> symbol, company |-> company_of(symbol),
                       articles |-> summary, sentiment_summary |-> g.text])
          ELSE Raise(500, g.error)

-----------------------------------------------------------------------------
\* The response is sent and the handler's frame is gone.
respond ==
    /\ pc = "done"
    /\ pc' = "idle"
    /\ endpoint' = "none"
    /\ request' = NoRequest
    /\ days' = 0
    /\ df' = <<>>
    /\ summary' = <<>>
    /\ articles' = <<>>
    /\ bq_queries' = <<>>
    /\ news_requests' = <<>>
    /\ openai_requests' = <<>>
    /\ status_code' = 0
    /\ detail' = ""
    /\ body' = <<>>
    /\ UNCHANGED <<config, parked>>

\* What bq_client.query(...).to_dataframe() may do: raise (None), or read the
\* table as it is at that moment (Some(table)).
BqResults(tickers) == {None} \cup {Some(t) : t \in TablesOf(tickers)}

Next ==
    \/ \E q \in QUESTIONS : ask_begin(q)
    \/ \E r \in BqResults(FAANG), tie \in TieOrders : ask_query(r, tie)
    \/ \E c \in COMPLETIONS : ask_generate(c)
    \/ \E t1 \in TICKER_INPUTS, t2 \in TICKER_INPUTS, d \in DAYS_INPUTS : compare_begin(t1, t2, d)
    \/ \E r \in BqResults({upper(request.ticker1), upper(request.ticker2)}), tie \in TieOrders :
          compare_query(r, tie)
    \/ \E c \in COMPLETIONS : compare_generate(c)
    \/ \E d \in DAYS_INPUTS : dashboard_begin(d)
    \/ \E r \in BqResults(FAANG), tie \in TieOrders : dashboard_query(r, tie)
    \/ \E t \in TICKER_INPUTS : chart_begin(t)
    \/ \E r \in BqResults({request.ticker}), tie \in TieOrders : chart_query(r, tie)
    \/ \E t \in TICKER_INPUTS, l \in LIMIT_INPUTS : news_begin(t, l)
    \/ \E resp \in NEWS_ANSWERS : news_fetch(resp)
    \/ \E t \in TICKER_INPUTS, l \in LIMIT_INPUTS : sentiment_begin(t, l)
    \/ \E resp \in NEWS_ANSWERS : sentiment_fetch(resp)
    \/ \E c \in COMPLETIONS : sentiment_generate(c)
    \/ respond

Spec == Init /\ [][Next]_vars

-----------------------------------------------------------------------------
(* Two requests served concurrently *)

\* The locals of the thread that runs.
Context ==
    [pc |-> pc, endpoint |-> endpoint, request |-> request, days |-> days, df |-> df,
     summary |-> summary, articles |-> articles, bq_queries |-> bq_queries,
     news_requests |-> news_requests, openai_requests |-> openai_requests,
     status_code |-> status_code, detail |-> detail, body |-> body]

\* local_days, were `days` a module-level name the handlers assign (global days):
\* the thread that resumes reads what the other thread wrote last.
global_days(own, other) == other

\* `days` is a local of compare_stocks / faang_dashboard: the thread that resumes
\* reads its own.
local_days(own, other) == own

\* The running thread is suspended, at one of the points where the model cuts
\* the handlers, and the other thread runs on.
switch ==
    /\ parked # Context
    /\ parked' = Context
    /\ pc' = parked.pc
    /\ endpoint' = parked.endpoint
    /\ request' = parked.request
    /\ days' = local_days(parked.days, days)
    /\ df' = parked.df
    /\ summary' = parked.summary
    /\ articles' = parked.articles
    /\ bq_queries' = parked.bq_queries
    /\ news_requests' = parked.news_requests
    /\ openai_requests' = parked.openai_requests
    /\ status_code' = parked.status_code
    /\ detail' = parked.detail
    /\ body' = parked.body
    /\ UNCHANGED config

\* The inputs and the collaborators' answers of the concurrent runs.
CONCURRENT_TABLE ==
    [k \in FAANG |-> IF k = "AAPL" THEN << GoldRow(20260725, Float(10), Float(6), Integer(5)),
                                           GoldRow(20261030, Float(12), Float(12), Integer(7)) >>
                     ELSE IF k = "NFLX" THEN << GoldRow(20261101, Float(31), NaN, SqlNull) >>
                     ELSE <<>>]
CONCURRENT_BQ == {None, Some(CONCURRENT_TABLE)}
CONCURRENT_DAYS == {1, 60, 1000}
CONCURRENT_TICKERS == {"AAPL", "NFLX"}
CONCURRENT_NEWS ==
    {Some([status_code |-> 200, text |-> "", articles |-> l]) : l \in SeqsUpTo(ARTICLES, 1)}

NextConcurrent ==
    \/ \E q \in {"", "Is AAPL up?"} : ask_begin(q)
    \/ \E r \in CONCURRENT_BQ : ask_query(r, "input")
    \/ \E c \in COMPLETIONS : ask_generate(c)
    \/ \E t2 \in {"NFLX", "aapl"}, d \in CONCURRENT_DAYS : compare_begin("AAPL", t2, d)
    \/ \E r \in CONCURRENT_BQ : compare_query(r, "input")
    \/ \E c \in COMPLETIONS : compare_generate(c)
    \/ \E d \in CONCURRENT_DAYS : dashboard_begin(d)
    \/ \E r \in CONCURRENT_BQ : dashboard_query(r, "input")
    \/ \E t \in CONCURRENT_TICKERS : chart_begin(t)
    \/ \E r \in CONCURRENT_BQ : chart_query(r, "input")
    \/ \E t \in CONCURRENT_TICKERS : news_begin(t, 1)
    \/ \E resp \in CONCURRENT_NEWS : news_fetch(resp)
    \/ \E t \in CONCURRENT_TICKERS : sentiment_begin(t, 1)
    \/ \E resp \in CONCURRENT_NEWS : sentiment_fetch(resp)
    \/ \E c \in COMPLETIONS : sentiment_generate(c)
    \/ respond
    \/ switch

SpecConcurrent == Init /\ [][NextConcurrent]_vars

-----------------------------------------------------------------------------
(* Vocabulary of the properties *)

Done == pc = "done"
Success == Done /\ status_code = 200
OutboundCalls == Len(bq_queries) + Len(news_requests) + Len(openai_requests)

SameTickers == upper(request.ticker1) = upper(request.ticker2)
GenerationCredentialSet == Truthy(OPENAI_API_KEY)
NewsCredentialSet == Truthy(NEWS_API_KEY)

\* The request's input passes the handler's validation.
ValidInput ==
    /\ endpoint = "ask" => strip(request.question) # ""
    /\ endpoint = "compare" => ~SameTickers
    /\ endpoint \in {"news", "sentiment"} => request.limit >= 1

\* The names of the credentials the endpoint needs and the process lacks.
MissingCredentials ==
    {n \in {"NEWS_API_KEY"} : endpoint \in {"news", "sentiment"} /\ ~NewsCredentialSet}
    \cup {n \in {"OPENAI_API_KEY"} :
            endpoint \in {"ask", "compare", "sentiment"} /\ ~GenerationCredentialSet}

-----------------------------------------------------------------------------
\* C1: a /compare-stocks request whose two tickers are the same symbol ends with
\* HTTP 400 whether or not the generation credential is set, and the warehouse
\* is never queried for it.
C1_SameTickersRejected ==
    (endpoint = "compare" /\ SameTickers) =>
        /\ bq_queries = <<>>
        /\ Done => status_code = 400

\* C2: on an endpoint that needs a credential, a valid request made while a
\* needed credential is unset makes no outbound call at all and ends with a 500
\* whose detail names a missing credential.
C2_MissingCredentialBeforeAnyCall ==
    (endpoint # "none" /\ ValidInput /\ MissingCredentials # {}) =>
        /\ OutboundCalls = 0
        /\ Done => /\ status_code = 500
                   /\ \E n \in MissingCredentials : Contains(n, detail)

-----------------------------------------------------------------------------
\* (a), (b), (c) of the news filter, as the specification states them.
Passes(a, company) ==
    LET name == IF a.source = None \/ a.source[1] = None THEN "" ELSE a.source[1][1]
        title == IF a.title = None THEN "" ELSE a.title[1]
        description == IF a.description = None THEN "" ELSE a.description[1]
        text == lower(title) \o " " \o lower(description)
    IN /\ name = "" \/ name \in REPUTED_SOURCES
       /\ Contains(lower(company), text)
       /\ \E k \in DOMAIN STOCK_KEYWORDS : Contains(lower(STOCK_KEYWORDS[k]), text)

RequestCompany == company_of(upper(request.ticker))

\* The fetch of the request came back, and came back with nothing: no row from
\* the warehouse, or no article of the provider's list that passes the filter.
EmptyFetch ==
    \/ /\ endpoint \in {"ask", "chart", "compare", "dashboard"}
       /\ bq_queries # <<>>
       /\ ~bq_queries[1].raised /\ bq_queries[1].rows = 0
    \/ /\ endpoint \in {"news", "sentiment"}
       /\ news_requests # <<>>
       /\ news_requests[1].status_code = 200
       /\ \A i \in DOMAIN articles : ~Passes(articles[i], RequestCompany)

\* C3, as claimed: on every fetching endpoint an empty result set ends the
\* request with HTTP 404, and no generation call is made for it.
C3_EmptyFetchIs404 ==
    (Done /\ EmptyFetch) => (status_code = 404 /\ openai_requests = <<>>)

\* C3, amended: an empty result set ends the request with HTTP 404 on
\* /chart-data, /compare-stocks, /faang-dashboard, /news and /news-sentiment and
\* with HTTP 500 on /ask; on none of them is a generation call made for it.
C3_EmptyFetchIsTerminal ==
    (Done /\ EmptyFetch) =>
        /\ status_code = (IF endpoint = "ask" THEN 500 ELSE 404)
        /\ body = <<>>
        /\ openai_requests = <<>>

\* A /news-sentiment request whose provider list is not empty and holds no
\* article that passes the filter has ended.
C3_Witness ==
    /\ Done /\ EmptyFetch
    /\ endpoint = "sentiment" /\ articles # <<>> /\ GenerationCredentialSet
    /\ status_code = 404

-----------------------------------------------------------------------------
\* The handler's validation turned the request down.
InputRejected ==
    \/ endpoint = "ask" /\ strip(request.question) = ""
    \/ endpoint = "compare" /\ SameTickers

\* An outbound call of the request failed: it raised, or answered with an error.
CallFailed ==
    \/ \E i \in DOMAIN bq_queries : bq_queries[i].raised
    \/ \E i \in DOMAIN news_requests : news_requests[i].status_code # 200
    \/ \E i \in DOMAIN openai_requests :
          ~openai_requests[i].completion.ok \/ openai_requests[i].completion.content = None

\* A stage of the pipeline has failed for the request in flight.
StageFailed == InputRejected \/ MissingCredentials # {} \/ EmptyFetch \/ CallFailed

\* A failure the handler has met so far (a credential it has not come to check
\* yet is none).
FailedSoFar == InputRejected \/ EmptyFetch \/ CallFailed \/ status_code >= 400

\* C4: in every request each gateway is called at most once, and never without
\* its credential; once a stage has failed no further outbound call is made, and
\* the request ends with an error response and no payload.
C4_LinearShortCircuit ==
    /\ [](/\ Len(bq_queries) <= 1 /\ Len(news_requests) <= 1 /\ Len(openai_requests) <= 1
          /\ openai_requests # <<>> => GenerationCredentialSet
          /\ news_requests # <<>> => NewsCredentialSet
          /\ (Done /\ StageFailed) => (status_code >= 400 /\ body = <<>>))
    /\ [][FailedSoFar =>
            /\ Len(bq_queries') <= Len(bq_queries)
            /\ Len(news_requests') <= Len(news_requests)
            /\ Len(openai_requests') <= Len(openai_requests)]_vars

\* A /compare-stocks request has ended whose warehouse call returned rows and
\* whose generation call failed.
C4_Witness ==
    /\ Done /\ endpoint = "compare"
    /\ Len(bq_queries) = 1 /\ bq_queries[1].rows > 0
    /\ Len(openai_requests) = 1 /\ ~openai_requests[1].completion.ok
    /\ status_code = 500

-----------------------------------------------------------------------------
(* The latest-per-ticker aggregation *)

\* The handler has aggregated the fetched frame df.
Aggregated ==
    \/ endpoint = "dashboard" /\ Success
    \/ endpoint = "compare" /\ pc \in {"compare_generate", "done"} /\ summary # <<>>

\* The rows the aggregation gave: latest of faang_dashboard, summary of compare_stocks.
AggregateRows == IF endpoint = "dashboard" THEN body.tickers ELSE summary

FetchedTickers == {df[i].ticker : i \in DOMAIN df}
FetchedDates(t) == {df[i].trade_date : i \in {j \in DOMAIN df : df[j].ticker = t}}

\* The fetched row of ticker t with the greatest trade_date, the first of them
\* in input order.
LatestRow(t) ==
    LET m == Max(FetchedDates(t))
    IN df[Min({i \in DOMAIN df : df[i].ticker = t /\ df[i].trade_date = m})]

\* out is the fetched cell: its number, or null where the cell holds none.
SameCell(out, cell) ==
    IF cell.t = "float" THEN out = cell ELSE out.t \in {"nan", "None"}

\* C5: the aggregation gives exactly one row per distinct fetched ticker, and
\* each last_* field is the field of the ticker's row of greatest trade_date
\* (the first such row in input order), null where that row's field is null.
C5_LastFieldsOfLatestRow ==
    Aggregated =>
        /\ Len(AggregateRows) = Cardinality(FetchedTickers)
        /\ {AggregateRows[i].ticker : i \in DOMAIN AggregateRows} = FetchedTickers
        /\ \A i \in DOMAIN AggregateRows :
              LET out == AggregateRows[i]
                  row == LatestRow(out.ticker)
              IN /\ SameCell(out.last_close, row.close)
                 /\ endpoint = "dashboard" =>
                       /\ out.last_date = row.trade_date
                       /\ SameCell(out.last_daily_return, row.daily_return)

\* C6: a /faang-dashboard response built from rows of all five tickers lists
\* exactly five entries, one per ticker, each with the greatest trade_date
\* fetched for its ticker as last_date.
C6_DashboardFiveLatest ==
    (endpoint = "dashboard" /\ Success /\ FetchedTickers = FAANG) =>
        /\ Len(body.tickers) = 5
        /\ \A t \in FAANG :
              /\ Cardinality({i \in DOMAIN body.tickers : body.tickers[i].ticker = t}) = 1
              /\ \A i \in DOMAIN body.tickers :
                    body.tickers[i].ticker = t =>
                        /\ body.tickers[i].last_date \in FetchedDates(t)
                        /\ body.tickers[i].last_date = Max(FetchedDates(t))

\* A /faang-dashboard response built from rows of all five tickers, one of
\* them fetched with rows of several dates.
C6_Witness ==
    /\ endpoint = "dashboard" /\ Success /\ FetchedTickers = FAANG
    /\ \E t \in FAANG : Cardinality(FetchedDates(t)) >= 3
    /\ \E t \in FAANG : Cardinality(FetchedDates(t)) = 2

\* C7, as claimed: the aggregated rows come in the order in which the tickers
\* first appear in the fetched rows sorted by trade_date descending; whatever
\* the order among equal dates, a ticker then never comes before one whose
\* latest row is newer.
C7_OrderOfFirstAppearance ==
    Aggregated =>
        \A i, j \in DOMAIN AggregateRows :
            i < j => Max(FetchedDates(AggregateRows[i].ticker))
                        >= Max(FetchedDates(AggregateRows[j].ticker))

\* C7, amended: the aggregated rows come in ascending order of ticker symbol.
C7_OrderByTicker ==
    Aggregated =>
        \A i, j \in DOMAIN AggregateRows :
            i < j => StrLess(AggregateRows[i].ticker, AggregateRows[j].ticker)

\* An aggregation whose first row is of a ticker that appears later in the
\* sorted input than the ticker of its second row.
C7_Witness ==
    /\ Aggregated /\ Len(AggregateRows) >= 2
    /\ Max(FetchedDates(AggregateRows[1].ticker)) < Max(FetchedDates(AggregateRows[2].ticker))

-----------------------------------------------------------------------------
(* The day window *)

\* d brought into lo..hi
Clamped(d, lo, hi) == IF d < lo THEN lo ELSE IF d > hi THEN hi ELSE d

\* C8: whatever integer days a request gives, /compare-stocks binds
\* max(7, min(days, 365)) into its warehouse query and /faang-dashboard
\* max(7, min(days, 180)); the response echoes the value bound; and no request
\* is turned down for its days: the query is made for every days.
C8_DaysClampedAndEchoed ==
    /\ (endpoint = "compare" /\ bq_queries # <<>>) =>
          /\ bq_queries[1].days = Clamped(request.days, 7, 365)
          /\ bq_queries[1].days \in 7..365
    /\ (endpoint = "dashboard" /\ bq_queries # <<>>) =>
          /\ bq_queries[1].days = Clamped(request.days, 7, 180)
          /\ bq_queries[1].days \in 7..180
    /\ (endpoint \in {"compare", "dashboard"} /\ Success) => body.days = bq_queries[1].days
    /\ (endpoint = "dashboard" /\ Done) => Len(bq_queries) = 1
    /\ (endpoint = "compare" /\ Done /\ ~SameTickers /\ GenerationCredentialSet) =>
          Len(bq_queries) = 1

\* A /compare-stocks request with days=1000 has been answered with days=365.
C8_Witness ==
    /\ endpoint = "compare" /\ Success
    /\ request.days = 1000 /\ body.days = 365 /\ bq_queries[1].days = 365

-----------------------------------------------------------------------------
(* The news filter *)

NewsSuccess == endpoint \in {"news", "sentiment"} /\ Success

Urls(list) == [i \in DOMAIN list |-> list[i].url]

\* The articles of the provider's list that satisfy (a), (b) and (c), in the
\* provider's order.
PassingArticles == SelectSeq(articles, LAMBDA a : Passes(a, RequestCompany))

\* The first n elements of a sequence (none for n <= 0).
Take(seq, n) == SubSeq(seq, 1, Min({Len(seq), Max({n, 0})}))

\* C9: the articles of a /news or /news-sentiment response are exactly the
\* first articles of the provider's list, in its order, that satisfy (a), (b)
\* and (c), up to the limit.
C9_FirstPassingUpToLimit ==
    NewsSuccess => Urls(body.articles) = Take(Urls(PassingArticles), request.limit)

\* C10: a successful /news or /news-sentiment response holds at most limit
\* articles, for every integer limit.
C10_AtMostLimit ==
    NewsSuccess => Len(body.articles) <= request.limit

-----------------------------------------------------------------------------
(* The points of /chart-data *)

CHART_COLUMNS == {"trade_date", "close", "total_volume"}

ChartSuccess == endpoint = "chart" /\ Success

\* A JSON value: a string, a finite number or null.
JsonValue(c) == c.t \in {"str", "float", "int", "None"}

\* s is an ISO-8601 calendar date, the one of the YYYYMMDD date d.
IsoDateOf(s, d) ==
    /\ Len(s) = 10 /\ CharAt(s, 5) = "-" /\ CharAt(s, 8) = "-"
    /\ SubSeq(s, 1, 4) = ToString(d \div 10000)
    /\ SubSeq(s, 6, 7) = SubSeq(ToString(100 + ((d \div 100) % 100)), 2, 3)
    /\ SubSeq(s, 9, 10) = SubSeq(ToString(100 + (d % 100)), 2, 3)

\* out is what the specification makes of the fetched value val.
Sanitized(out, val) ==
    IF val.t = "date" THEN out.t = "str" /\ IsoDateOf(out.s, val.v)
    ELSE IF val.t \in {"nan", "inf", "-inf", "None", "NA", "NULL"} THEN out = PyNone
    ELSE out = val

\* The values a cell of the fetched frame may hold.
FRAME_CELLS ==
    {Date(c.date) : c \in CALENDAR} \cup {Float(n) : n \in {-6, 0, 31}}
    \cup {Integer(n) : n \in {0, 7}} \cup {NaN, PosInf, NegInf, NA, PyNone}

\* C11: the points of a /chart-data response are as many as the fetched rows and
\* in their order; every value of a point is a JSON value: the ISO-8601 string
\* of a date, null for NaN, +/-Infinity and every missing value, the value itself
\* for a finite float and for anything else; no point holds NaN or +/-Infinity.
C11_PointsAreJsonSafe ==
    ChartSuccess =>
        /\ Len(body.points) = Len(df)
        /\ \A i \in DOMAIN df :
              /\ DOMAIN body.points[i] = CHART_COLUMNS
              /\ \A col \in CHART_COLUMNS :
                    /\ Sanitized(body.points[i][col], df[i][col])
                    /\ JsonValue(body.points[i][col])
                    /\ body.points[i][col].t \notin {"nan", "inf", "-inf"}
        /\ \A val \in FRAME_CELLS :
              /\ Sanitized(json_safe(replace_inf(val)), val)
              /\ JsonValue(json_safe(replace_inf(val)))

\* A /chart-data response made of rows that hold -Infinity, a NULL float, a NULL
\* integer and finite numbers.
C11_Witness ==
    /\ ChartSuccess
    /\ \E i \in DOMAIN df : df[i].close = NegInf /\ body.points[i].close = PyNone
    /\ \E i \in DOMAIN df : df[i].close = NaN /\ df[i].total_volume = NA
    /\ \E i \in DOMAIN df : df[i].close.t = "float" /\ df[i].total_volume.t = "int"
    /\ \E i, j \in DOMAIN df : i < j /\ df[i].trade_date.v < df[j].trade_date.v

\* C12: the sanitization of /chart-data is idempotent: applied to the points it
\* has produced, it returns them unchanged, value by value.
C12_SanitizeIdempotent ==
    ChartSuccess =>
        /\ chart_points(body.points) = body.points
        /\ chart_points(chart_points(df)) = chart_points(df)
        /\ \A i \in DOMAIN body.points : \A col \in CHART_COLUMNS :
              json_safe(body.points[i][col]) = body.points[i][col]

\* A /chart-data response whose points hold a date string, a null and numbers.
C12_Witness ==
    /\ ChartSuccess
    /\ \E i \in DOMAIN body.points :
          /\ body.points[i].trade_date.t = "str"
          /\ body.points[i].close = PyNone
    /\ \E i \in DOMAIN body.points :
          body.points[i].close.t = "float" /\ body.points[i].total_volume.t = "int"

-----------------------------------------------------------------------------
(* Requests served concurrently *)

\* The text the handler makes of the answer to the request's own generation call.
OwnText(c) == Generated(c.openai_requests[1].completion).text

\* The calls recorded for the request of context c carry the request's own
\* parameters, and its response is the one its handler computes from the
\* request's own input, the configuration and the answers to its own calls.
OwnResponse(c) ==
    LET symbol == upper(c.request.ticker)
        ok == c.pc = "done" /\ c.status_code = 200
    IN /\ c.endpoint = "compare" =>
            /\ c.pc = "compare_query" => c.days = compare_clamp(c.request.days)
            /\ c.bq_queries # <<>> =>
                  /\ c.bq_queries[1].days = compare_clamp(c.request.days)
                  /\ c.bq_queries[1].tickers = <<upper(c.request.ticker1), upper(c.request.ticker2)>>
                  /\ c.bq_queries[1].rows = Len(c.df)
            /\ ok => /\ c.body.ticker1 = upper(c.request.ticker1)
                     /\ c.body.ticker2 = upper(c.request.ticker2)
                     /\ c.body.days = compare_clamp(c.request.days)
                     /\ \E tie \in TieOrders, build \in PandasBuilds :
                           c.body.table = compare_summary(c.df, tie, build)
                     /\ c.body.analysis = OwnText(c)
       /\ c.endpoint = "dashboard" =>
            /\ c.pc = "dashboard_query" => c.days = dashboard_clamp(c.request.days)
            /\ c.bq_queries # <<>> =>
                  /\ c.bq_queries[1].days = dashboard_clamp(c.request.days)
                  /\ c.bq_queries[1].rows = Len(c.df)
            /\ ok => /\ c.body.days = dashboard_clamp(c.request.days)
                     /\ \E tie \in TieOrders, build \in PandasBuilds :
                           c.body.tickers = dashboard_latest(c.df, tie, build)
       /\ c.endpoint = "chart" =>
            /\ c.bq_queries # <<>> => c.bq_queries[1].tickers = <<c.request.ticker>>
            /\ ok => /\ c.body.ticker = symbol
                     /\ c.body.points = chart_points(c.df)
                     /\ \A i \in DOMAIN c.df : c.df[i].trade_date.t = "date"
       /\ c.endpoint = "ask" =>
            /\ c.bq_queries # <<>> => c.bq_queries[1].rows = Len(c.df)
            /\ ok => c.body.answer = OwnText(c)
       /\ c.endpoint \in {"news", "sentiment"} =>
            /\ c.news_requests # <<>> =>
                  c.news_requests[1] =
                     [NewsCall(company_of(symbol), c.request.limit, None)
                        EXCEPT !.status_code = c.news_requests[1].status_code]
            /\ ok => /\ c.body.ticker = symbol
                     /\ c.body.company = company_of(symbol)
       /\ (c.endpoint = "news" /\ ok) =>
            c.body.articles = news_filtered(c.articles, company_of(symbol), c.request.limit)
       /\ (c.endpoint = "sentiment" /\ ok) =>
            /\ c.body.articles = sentiment_headlines(c.articles, company_of(symbol), c.request.limit)
            /\ c.body.sentiment_summary = OwnText(c)

\* C13: however the steps of two requests interleave, the module-level
\* configuration and client handles are never modified; a step of one request
\* leaves the locals of the other as they were, and a thread resumes with the
\* locals it was suspended with; the calls and the response of each request are
\* those its handler makes of the request's own input, the configuration and the
\* answers to its own calls.
C13_RequestsIsolated ==
    /\ [][config' = config]_vars
    /\ [][\/ parked' = parked
          \/ parked' = Context /\ Context' = parked]_vars
    /\ [](OwnResponse(Context) /\ OwnResponse(parked))

\* A /faang-dashboard request that was suspended before its warehouse call has
\* been answered while a /compare-stocks request with other days is in flight
\* after its own warehouse call.
C13_Witness ==
    /\ endpoint = "dashboard" /\ Success /\ request.days = 1 /\ body.days = 7
    /\ parked.endpoint = "compare" /\ parked.pc = "compare_generate"
    /\ parked.request.days = 1000 /\ parked.days = 365
    /\ parked.bq_queries # <<>> /\ bq_queries # <<>>

-----------------------------------------------------------------------------
(* The numbers of the aggregated payloads *)

\* A finite number or null.
FiniteOrNull(c) == c.t \in {"float", "int", "None"}

\* C14: every numeric value of the table a /compare-stocks request returns and
\* of the tickers list a /faang-dashboard request returns is a finite number or
\* null, whatever rows were fetched: no NaN and no +/-Infinity is in the payload.
C14_PayloadNumbersFiniteOrNull ==
    /\ (endpoint = "compare" /\ Success) =>
          \A i \in DOMAIN body.table :
              /\ FiniteOrNull(body.table[i].last_close)
              /\ FiniteOrNull(body.table[i].avg_daily_return)
    /\ (endpoint = "dashboard" /\ Success) =>
          \A i \in DOMAIN body.tickers :
              /\ FiniteOrNull(body.tickers[i].last_close)
              /\ FiniteOrNull(body.tickers[i].last_daily_return)
====
